---- MODULE Spec2Model ----
(***************************************************************************)
(* A model of the wstunnel client (client.go): main's accept loop, the     *)
(* per-connection handler handleConnection with the dialer getProxiedConn, *)
(* and the relay made of two iocopy goroutines and a completion channel.   *)
(***************************************************************************)
EXTENDS Naturals, Sequences, FiniteSets, TLC

\* ---------------------------------------------------------------- bounds
MaxSessions == 2
MaxBytes == 1
MaxRelayBytes == 1
MaxEchoBytes == 2
MaxAcceptErrs == 1
MaxHostLen == 3

Bytes == {"a", "b"}

Sessions == 1..MaxSessions
Dirs == {"l2u", "u2l"}

Other(d) == IF d = "l2u" THEN "u2l" ELSE "l2u"

\* Characters of a -target_host value, and the values up to MaxHostLen long.
HostChars == {"h", "p", ":"}
Hosts == UNION {[1..n -> HostChars] : n \in 0..MaxHostLen}

\* The -target_host and the proxy's address used where the flags are fixed.
DefaultHost == <<"h", ":", "p">>
ProxyHost == <<"x", ":", "p">>

VARIABLES
    certsDir,    \* TRUE iff the -certs_dir flag is non-empty
    targetHost,  \* the -target_host flag, a sequence of characters
    serverName,  \* the -server_name flag, a sequence of characters
    caFile,      \* what <certs_dir>/cacert.pem is: "unreadable", "malformed", "valid"
    allProxy,    \* TRUE iff proxy.FromEnvironment() yields a dialer other than proxy.Direct
    httpProxy,   \* TRUE iff http.ProxyFromEnvironment yields a proxy URL
    mainPc,      \* position of main: "config", "listen", "accept", "panic"
    wsConfig,    \* the *websocket.Config built by getWsConfig (scheme "none" before)
    lnState,     \* the listening socket: "none", "listening", "unusable"
    acceptErr,   \* main's err after the latest ln.Accept(): "none", "nil", "transient", "closed"
    acceptErrs,  \* number of failed ln.Accept() calls logged so far (capped)
    nextId,      \* number of handleConnection goroutines spawned so far
    pc,          \* per session: position of handleConnection
    local,       \* per session: state of conn, the accepted local connection
    up,          \* per session: state of the raw upstream socket (p / tcp / ws)
    route,       \* per session: route taken by getProxiedConn
    wrapped,     \* per session: TRUE iff tcp was replaced by tls.Client(tcp, ...)
    upCW,        \* per session: TRUE iff tcp's dynamic type has CloseWrite
    herr,        \* per session: handleConnection's err: "none", "nil", "dial", "ws"
    connectRes,  \* per session: outcome of cc.Do for the connection the dialer handed over, until it is used
    ops,         \* per session: the network operations made so far, in order
    pumpPc,      \* per session and direction: position of the iocopy goroutine
    pumpRes,     \* per session and direction: result of io.Copy, "none", "nil", "err"
    held,        \* per session and direction: bytes read by io.Copy and not yet written
    chan,        \* per session: content of the channel c (capacity 2)
    recvd,       \* per session: completions the handler has received from c
    tx,          \* per session and direction: sending stream of the source peer, "open" or "fin"
    q,           \* per session and direction: bytes sent by the source peer, not yet read
    sent,        \* per session and direction: all bytes the source peer has sent
    rcvd,        \* per session and direction: all bytes written to the destination peer
    fault        \* per session and direction: TRUE iff the network failed a Read or Write of the pump

fvars == <<certsDir, targetHost, serverName, caFile, allProxy, httpProxy>>
cvars == <<fvars, wsConfig, lnState, acceptErr, acceptErrs, nextId>>
gvars == <<mainPc, cvars>>
hvars == <<pc, local, up, route, wrapped, upCW, herr, connectRes, ops, recvd>>
pvars == <<pumpPc, pumpRes, held, chan>>
dvars == <<tx, q, sent, rcvd, fault>>
vars == <<gvars, hvars, pvars, dvars>>

PerDir(v) == [d \in Dirs |-> v]

\* The program before main runs: no socket, no goroutine.
InitProgram ==
    /\ mainPc = "config"
    /\ wsConfig = [scheme |-> "none", host |-> <<>>, tls |-> "nil", sni |-> <<>>]
    /\ lnState = "none"
    /\ acceptErr = "none"
    /\ acceptErrs = 0
    /\ nextId = 0
    /\ pc = [s \in Sessions |-> "none"]
    /\ local = [s \in Sessions |-> "none"]
    /\ up = [s \in Sessions |-> "none"]
    /\ route = [s \in Sessions |-> "none"]
    /\ wrapped = [s \in Sessions |-> FALSE]
    /\ upCW = [s \in Sessions |-> FALSE]
    /\ herr = [s \in Sessions |-> "none"]
    /\ connectRes = [s \in Sessions |-> "none"]
    /\ ops = [s \in Sessions |-> <<>>]
    /\ pumpPc = [s \in Sessions |-> PerDir("idle")]
    /\ pumpRes = [s \in Sessions |-> PerDir("none")]
    /\ held = [s \in Sessions |-> PerDir(<<>>)]
    /\ chan = [s \in Sessions |-> <<>>]
    /\ recvd = [s \in Sessions |-> <<>>]
    /\ tx = [s \in Sessions |-> PerDir("open")]
    /\ q = [s \in Sessions |-> PerDir(<<>>)]
    /\ sent = [s \in Sessions |-> PerDir(<<>>)]
    /\ rcvd = [s \in Sessions |-> PerDir(<<>>)]
    /\ fault = [s \in Sessions |-> PerDir(FALSE)]

\* What cacert.pem can be: missing or unreadable, readable without any
\* parsable PEM certificate, or a readable bundle of certificates.
CaFiles == {"unreadable", "malformed", "valid"}

\* Every setting of -certs_dir and of the proxy environment, with every kind
\* of cacert.pem where the file is read.
Init ==
    /\ certsDir \in BOOLEAN
    /\ targetHost = DefaultHost
    /\ serverName = <<>>
    /\ caFile \in (IF certsDir THEN CaFiles ELSE {"valid"})
    /\ allProxy \in BOOLEAN
    /\ httpProxy \in BOOLEAN
    /\ InitProgram

\* Every setting of the flags the configuration is built from, no proxy set.
InitConfig ==
    /\ certsDir \in BOOLEAN
    /\ targetHost \in Hosts
    /\ serverName \in {<<>>, <<"s">>}
    /\ caFile \in CaFiles
    /\ allProxy = FALSE
    /\ httpProxy = FALSE
    /\ InitProgram

\* The process without -certs_dir behind an HTTP proxy, no SOCKS5 proxy set.
InitHttpProxy ==
    /\ certsDir = FALSE
    /\ targetHost = DefaultHost
    /\ serverName = <<>>
    /\ caFile = "valid"
    /\ allProxy = FALSE
    /\ httpProxy = TRUE
    /\ InitProgram

\* ------------------------------------------------------------------ main

\* A Split that cuts at the last separator only.
RECURSIVE Split_AtLast(_, _)
Split_AtLast(str, sep) ==
    IF str = <<>> THEN << <<>> >>
    ELSE IF str[Len(str)] = sep THEN << SubSeq(str, 1, Len(str) - 1), <<>> >>
    ELSE LET r == Split_AtLast(SubSeq(str, 1, Len(str) - 1), sep)
         IN  [r EXCEPT ![Len(r)] = Append(r[Len(r)], str[Len(str)])]

\* strings.Split(str, sep) for a one-character separator: the pieces between
\* the separators, in order.
RECURSIVE Split(_, _)
Split(str, sep) ==
    IF str = <<>> THEN << <<>> >>
    ELSE LET r == Split(Tail(str), sep)
         IN  IF Head(str) = sep THEN << <<>> >> \o r
             ELSE << <<Head(str)>> \o r[1] >> \o Tail(r)

\* getTlsConfig, lines 52-55: the ServerName of the TLS configuration.
tlsServerName(host, override) ==
    IF override # <<>> THEN override ELSE Split(host, ":")[1]

\* getTlsConfig: nil without -certs_dir; an error when cacert.pem cannot be
\* read; otherwise a configuration whose RootCAs holds what AppendCertsFromPEM
\* could parse (its result is not looked at), nothing for a malformed file.
getTlsConfig(ca) ==
    IF ~certsDir THEN [err |-> FALSE, tls |-> "nil", sni |-> <<>>]
    ELSE IF ca = "unreadable" THEN [err |-> TRUE, tls |-> "nil", sni |-> <<>>]
    ELSE [err |-> FALSE,
          tls |-> IF ca = "valid" THEN "set" ELSE "emptyPool",
          sni |-> tlsServerName(targetHost, serverName)]

\* getWsConfig, lines 60-63: the scheme of the location.
wsScheme == IF certsDir THEN "wss" ELSE "ws"

\* getWsConfig: scheme by -certs_dir, websocket.NewConfig, then getTlsConfig.
getWsConfig(urlOk, ca) ==
    [err |-> ~urlOk \/ getTlsConfig(ca).err,
     scheme |-> wsScheme,
     host |-> targetHost,
     tls |-> getTlsConfig(ca).tls,
     sni |-> getTlsConfig(ca).sni]

\* main, lines 161-166: build the configuration or panic.
MainConfig ==
    /\ mainPc = "config"
    /\ \E urlOk \in BOOLEAN :
        IF getWsConfig(urlOk, caFile).err
        THEN /\ mainPc' = "panic"
             /\ UNCHANGED wsConfig
        ELSE /\ mainPc' = "listen"
             /\ wsConfig' = [scheme |-> getWsConfig(urlOk, caFile).scheme,
                             host |-> getWsConfig(urlOk, caFile).host,
                             tls |-> getWsConfig(urlOk, caFile).tls,
                             sni |-> getWsConfig(urlOk, caFile).sni]
    /\ UNCHANGED <<fvars, lnState, acceptErr, acceptErrs, nextId>>
    /\ UNCHANGED <<hvars, pvars, dvars>>

\* main, lines 168-171: net.Listen or panic.
MainListen ==
    /\ mainPc = "listen"
    /\ \E ok \in BOOLEAN :
        IF ok
        THEN mainPc' = "accept" /\ lnState' = "listening"
        ELSE mainPc' = "panic" /\ UNCHANGED lnState
    /\ UNCHANGED <<fvars, wsConfig, acceptErr, acceptErrs, nextId>>
    /\ UNCHANGED <<hvars, pvars, dvars>>

\* main, lines 174 and 179: Accept returns a connection, go handleConnection.
AcceptOk(maxSessions) ==
    /\ mainPc = "accept"
    /\ lnState = "listening"
    /\ nextId < maxSessions
    /\ acceptErr' = "nil"
    /\ nextId' = nextId + 1
    /\ pc' = [pc EXCEPT ![nextId + 1] = "dial"]
    /\ local' = [local EXCEPT ![nextId + 1] = "open"]
    /\ UNCHANGED <<fvars, mainPc, wsConfig, lnState, acceptErrs>>
    /\ UNCHANGED <<up, route, wrapped, upCW, herr, connectRes, ops, recvd>>
    /\ UNCHANGED <<pvars, dvars>>

\* A loop that gives up after a failed Accept.
afterAcceptError_GiveUp == "panic"

\* main, line 177: what the loop does after a failed Accept.
afterAcceptError == "accept"

\* main, lines 174-178: Accept returns an error (a transient one, or the
\* error of a listening socket that stopped working), it is logged, continue.
AcceptFail ==
    /\ mainPc = "accept"
    /\ acceptErrs < MaxAcceptErrs
    /\ acceptErrs' = acceptErrs + 1
    /\ acceptErr' = IF lnState = "unusable" THEN "closed" ELSE "transient"
    /\ mainPc' = afterAcceptError
    /\ UNCHANGED <<fvars, wsConfig, lnState, nextId>>
    /\ UNCHANGED <<hvars, pvars, dvars>>

\* Environment: the listening socket stops working; every later Accept fails.
ListenerBreaks ==
    /\ mainPc = "accept"
    /\ lnState = "listening"
    /\ lnState' = "unusable"
    /\ UNCHANGED <<fvars, mainPc, wsConfig, acceptErr, acceptErrs, nextId>>
    /\ UNCHANGED <<hvars, pvars, dvars>>

\* ------------------------------------------------------- getProxiedConn

\* A dialer that looks for the HTTP proxy before the SOCKS5 proxy.
getProxiedRoute_HttpFirst(socks, http) ==
    IF http THEN "connect"
    ELSE IF socks THEN "socks5"
    ELSE "direct"

\* getProxiedConn, lines 94-103: which of the three routes the dialer takes.
getProxiedRoute(socks, http) ==
    IF socks THEN "socks5"
    ELSE IF ~http THEN "direct"
    ELSE "connect"

\* A handler that ends the process on a failure (log.Fatal).
logPrint_Fatal == mainPc' = "panic"

\* log.Print at lines 130 and 140: the error is logged, the process goes on.
logPrint == UNCHANGED mainPc

\* A handler without the deferred conn.Close().
deferConnClose_Missing(s) == UNCHANGED local

\* The deferred conn.Close() of handleConnection, line 126.
deferConnClose(s) == local' = [local EXCEPT ![s] = "closed"]

\* A handler that calls getProxiedConn again after an error.
afterDialError_Retry == "dial"

\* handleConnection, lines 129-132: after an error of getProxiedConn the
\* handler returns.
afterDialError == "done"

\* strings.Replace(turl.Scheme, "ws", "http", 1), line 99, on the two schemes
\* getWsConfig produces.
schemeRewrite(scheme) ==
    CASE scheme = "ws" -> "http"
      [] scheme = "wss" -> "https"
      [] OTHER -> scheme

\* A dialer that is handed the configuration's URL itself, not a copy.
configAfterDial_Aliased(cfg, r) ==
    IF r = "socks5" THEN cfg ELSE [cfg EXCEPT !.scheme = schemeRewrite(cfg.scheme)]

\* handleConnection line 128, getProxiedConn line 92: the URL is passed by
\* value, the rewrite of line 99 changes the dialer's copy only.
configAfterDial(cfg, r) == cfg

Op(op, addr, scheme) == [op |-> op, addr |-> addr, scheme |-> scheme]

\* getProxiedConn, lines 94-105: the lookups and the dial of route r for the
\* URL turl: SOCKS5 dials turl.Host through the proxy; otherwise the proxy
\* lookup with the rewritten scheme, then turl.Host or the proxy's host.
dialOps(turl, r) ==
    IF r = "socks5" THEN <<Op("dial", turl.host, "")>>
    ELSE <<Op("lookup", turl.host, schemeRewrite(turl.scheme)),
           Op("dial", IF r = "connect" THEN ProxyHost ELSE turl.host, "")>>

\* handleConnection line 128 into getProxiedConn lines 94-108: the first dial.
\* SOCKS5 and direct return its result; the HTTP route goes on to CONNECT.
Dial(s) ==
    /\ pc[s] = "dial"
    /\ route' = [route EXCEPT ![s] = getProxiedRoute(allProxy, httpProxy)]
    /\ ops' = [ops EXCEPT ![s] = ops[s] \o dialOps(wsConfig, route'[s])]
    /\ wsConfig' = configAfterDial(wsConfig, route'[s])
    /\ \E ok \in BOOLEAN :
        IF ok
        THEN /\ up' = [up EXCEPT ![s] = "open"]
             /\ pc' = [pc EXCEPT ![s] =
                    IF route'[s] = "connect" THEN "connect" ELSE "handshake"]
             /\ herr' = [herr EXCEPT ![s] =
                    IF route'[s] = "connect" THEN herr[s] ELSE "nil"]
             /\ UNCHANGED <<local, mainPc>>
        ELSE /\ pc' = [pc EXCEPT ![s] = afterDialError]
             /\ herr' = [herr EXCEPT ![s] = "dial"]
             /\ logPrint
             /\ deferConnClose(s)
             /\ UNCHANGED up
    /\ UNCHANGED <<wrapped, upCW, connectRes, recvd>>
    /\ UNCHANGED <<fvars, lnState, acceptErr, acceptErrs, nextId>>
    /\ UNCHANGED <<pvars, dvars>>

\* What cc.Do can end with: a 2xx response, a response with another status
\* (err is nil as well), ErrPersistEOF, or another error.
ConnectResults == {"ok", "persistEOF", "refused", "error"}

\* A dialer for which every error of cc.Do fails the dial.
connectFails_AnyError(res) == res \in {"error", "persistEOF"}

\* getProxiedConn, lines 116-118: only an error other than ErrPersistEOF fails.
connectFails(res) == res = "error"

\* getProxiedConn lines 110-122 and handleConnection lines 129-132: the CONNECT
\* exchange over p, with turl.Host as the request's Host; on failure the
\* dialer returns without closing p.
ConnectExchange(s) ==
    /\ pc[s] = "connect"
    /\ ops' = [ops EXCEPT ![s] = Append(ops[s], Op("connect", wsConfig.host, ""))]
    /\ \E res \in ConnectResults :
        /\ connectRes' = [connectRes EXCEPT ![s] = res]
        /\ IF connectFails(res)
           THEN /\ pc' = [pc EXCEPT ![s] = afterDialError]
                /\ herr' = [herr EXCEPT ![s] = "dial"]
                /\ logPrint
                /\ deferConnClose(s)
           ELSE /\ pc' = [pc EXCEPT ![s] = "handshake"]
                /\ herr' = [herr EXCEPT ![s] = "nil"]
                /\ UNCHANGED <<local, mainPc>>
    /\ UNCHANGED <<up, route, wrapped, upCW, recvd>>
    /\ UNCHANGED <<cvars, pvars, dvars>>

\* ----------------------------------------------------- handleConnection

\* Whether tcp's type has CloseWrite: *tls.Conn and *net.TCPConn have it, the
\* connection of a SOCKS5 dialer has it or not, by the dialer's type.
upSupportsCloseWrite(s) ==
    IF certsDir \/ route[s] # "socks5" THEN {TRUE} ELSE BOOLEAN

\* The state of the upstream socket after a failed websocket.NewClient:
\* handleConnection returns at line 141 before ws exists, tcp is not closed.
upAfterHandshakeError(st) == st

\* A handler that never wraps tcp.
wrapsTls_Never == FALSE

\* handleConnection, line 134: tcp is wrapped iff -certs_dir is set.
wrapsTls == certsDir

\* Can websocket.NewClient succeed? Over TLS the server's certificate is
\* verified against RootCAs, which fails when the pool is empty.
handshakeCanSucceed == ~(wrapsTls /\ wsConfig.tls = "emptyPool")

\* handleConnection, lines 134-147: optional tls.Client, websocket.NewClient,
\* then the channel and the two iocopy goroutines.
Handshake(s) ==
    /\ pc[s] = "handshake"
    /\ wrapped' = [wrapped EXCEPT ![s] = wrapsTls]
    /\ ops' = [ops EXCEPT ![s] =
          ops[s] \o (IF wrapsTls THEN <<Op("tls", wsConfig.host, wsConfig.tls)>> ELSE <<>>)
                 \o <<Op("ws", wsConfig.host, wsConfig.scheme)>>]
    /\ connectRes' = [connectRes EXCEPT ![s] = "none"]
    /\ \E ok \in BOOLEAN :
        IF ok /\ handshakeCanSucceed
        THEN /\ pc' = [pc EXCEPT ![s] = "relay"]
             /\ herr' = [herr EXCEPT ![s] = "nil"]
             /\ pumpPc' = [pumpPc EXCEPT ![s] = PerDir("read")]
             /\ \E cw \in upSupportsCloseWrite(s) : upCW' = [upCW EXCEPT ![s] = cw]
             /\ UNCHANGED <<local, up, mainPc>>
        ELSE /\ pc' = [pc EXCEPT ![s] = "done"]
             /\ herr' = [herr EXCEPT ![s] = "ws"]
             /\ logPrint
             /\ deferConnClose(s)
             /\ up' = [up EXCEPT ![s] = upAfterHandshakeError(up[s])]
             /\ UNCHANGED <<pumpPc, upCW>>
    /\ UNCHANGED <<route, recvd>>
    /\ UNCHANGED <<pumpRes, held, chan>>
    /\ UNCHANGED <<cvars, dvars>>

\* The accepted connection is a *net.TCPConn (net.Listen("tcp", ...)).
localCW == TRUE

\* closeWrite, lines 86-90: CloseWrite when the type has it, else nothing.
closeWrite(st, supports) ==
    IF supports /\ st = "open" THEN "wclosed" ELSE st

\* handleConnection, lines 150-153: does this completion make the loop return?
returnsOn(m) == m.err

\* handleConnection, lines 149-158: one iteration of the loop: receive a
\* completion; on an error return (the deferred Close calls run); otherwise
\* closeWrite(conn), closeWrite(tcp), and return after the second iteration.
Recv(s) ==
    /\ pc[s] = "relay"
    /\ chan[s] # <<>>
    /\ chan' = [chan EXCEPT ![s] = Tail(chan[s])]
    /\ recvd' = [recvd EXCEPT ![s] = Append(recvd[s], Head(chan[s]))]
    /\ IF returnsOn(Head(chan[s])) \/ Len(recvd'[s]) = 2
       THEN /\ pc' = [pc EXCEPT ![s] = "done"]
            /\ deferConnClose(s)
            /\ up' = [up EXCEPT ![s] = "closed"]
       ELSE /\ local' = [local EXCEPT ![s] = closeWrite(local[s], localCW)]
            /\ up' = [up EXCEPT ![s] = closeWrite(up[s], upCW[s])]
            /\ UNCHANGED pc
    /\ UNCHANGED <<route, wrapped, upCW, herr, connectRes, ops>>
    /\ UNCHANGED <<pumpPc, pumpRes, held>>
    /\ UNCHANGED <<gvars, dvars>>

\* ----------------------------------------------------------------- iocopy

srcConn(s, d) == IF d = "l2u" THEN local[s] ELSE up[s]
dstConn(s, d) == IF d = "l2u" THEN up[s] ELSE local[s]

\* io.Copy's result becomes known: the goroutine goes on to c <- err.
copyEnds(s, d, res) ==
    /\ pumpPc' = [pumpPc EXCEPT ![s][d] = "send"]
    /\ pumpRes' = [pumpRes EXCEPT ![s][d] = res]

\* iocopy line 78, the Read of io.Copy: an error on a closed connection or a
\* network failure, the next bytes, or end-of-stream after the peer's FIN.
PumpRead(s, d) ==
    /\ pumpPc[s][d] = "read"
    /\ \/ /\ srcConn(s, d) = "closed"
          /\ copyEnds(s, d, "err")
          /\ UNCHANGED <<held, q, fault>>
       \/ /\ srcConn(s, d) # "closed"
          /\ copyEnds(s, d, "err")
          /\ fault' = [fault EXCEPT ![s][d] = TRUE]
          /\ UNCHANGED <<held, q>>
       \/ /\ srcConn(s, d) # "closed"
          /\ q[s][d] # <<>>
          /\ held' = [held EXCEPT ![s][d] = <<Head(q[s][d])>>]
          /\ q' = [q EXCEPT ![s][d] = Tail(q[s][d])]
          /\ pumpPc' = [pumpPc EXCEPT ![s][d] = "write"]
          /\ UNCHANGED <<pumpRes, fault>>
       \/ /\ srcConn(s, d) # "closed"
          /\ q[s][d] = <<>>
          /\ tx[s][d] = "fin"
          /\ copyEnds(s, d, "nil")
          /\ UNCHANGED <<held, q, fault>>
    /\ UNCHANGED <<chan, tx, sent, rcvd>>
    /\ UNCHANGED <<gvars, hvars>>

\* Can a Write on a connection in this state succeed?
writable(st) == st = "open"

\* iocopy line 78, the Write of io.Copy: fails once the write side of the
\* destination was closed (CloseWrite or Close), or on a network failure.
PumpWrite(s, d) ==
    /\ pumpPc[s][d] = "write"
    /\ held' = [held EXCEPT ![s][d] = <<>>]
    /\ \/ /\ writable(dstConn(s, d))
          /\ rcvd' = [rcvd EXCEPT ![s][d] = rcvd[s][d] \o held[s][d]]
          /\ pumpPc' = [pumpPc EXCEPT ![s][d] = "read"]
          /\ UNCHANGED <<pumpRes, fault>>
       \/ /\ writable(dstConn(s, d))
          /\ copyEnds(s, d, "err")
          /\ fault' = [fault EXCEPT ![s][d] = TRUE]
          /\ UNCHANGED rcvd
       \/ /\ ~writable(dstConn(s, d))
          /\ copyEnds(s, d, "err")
          /\ UNCHANGED <<rcvd, fault>>
    /\ UNCHANGED <<chan, tx, q, sent>>
    /\ UNCHANGED <<gvars, hvars>>

\* A channel with room for one completion.
ChanCap_One == Cardinality(Dirs) - 1

\* An unbuffered channel.
ChanCap_Unbuffered == Cardinality({})

\* make(chan error, 2), line 145.
ChanCap == 2

\* iocopy line 79: c <- err.
PumpSend(s, d) ==
    /\ pumpPc[s][d] = "send"
    /\ Len(chan[s]) < ChanCap
    /\ chan' = [chan EXCEPT ![s] = Append(chan[s], [who |-> d, err |-> pumpRes[s][d] = "err"])]
    /\ pumpPc' = [pumpPc EXCEPT ![s][d] = "done"]
    /\ UNCHANGED <<pumpRes, held>>
    /\ UNCHANGED <<gvars, hvars, dvars>>

\* ------------------------------------------------------------ the peers

\* The peer at the source of direction d sends the byte b. What a peer sends
\* is seen by the program only through io.Copy's Read, so the peers are modelled
\* from the moment the goroutines exist, and while the connection is not closed.
PeerSend(s, d, b, maxBytes) ==
    /\ pumpPc[s][d] # "idle"
    /\ srcConn(s, d) # "closed"
    /\ tx[s][d] = "open"
    /\ Len(sent[s][d]) < maxBytes
    /\ sent' = [sent EXCEPT ![s][d] = Append(sent[s][d], b)]
    /\ q' = [q EXCEPT ![s][d] = Append(q[s][d], b)]
    /\ UNCHANGED <<tx, rcvd, fault>>
    /\ UNCHANGED <<gvars, hvars, pvars>>

\* The peer at the source of direction d closes its sending half (FIN).
PeerFin(s, d) ==
    /\ pumpPc[s][d] # "idle"
    /\ srcConn(s, d) # "closed"
    /\ tx[s][d] = "open"
    /\ tx' = [tx EXCEPT ![s][d] = "fin"]
    /\ UNCHANGED <<q, sent, rcvd, fault>>
    /\ UNCHANGED <<gvars, hvars, pvars>>

\* An echoing upstream sends back the next byte it has received.
EchoSend(s) ==
    /\ Len(sent[s]["u2l"]) < Len(rcvd[s]["l2u"])
    /\ PeerSend(s, "u2l", rcvd[s]["l2u"][Len(sent[s]["u2l"]) + 1], Len(rcvd[s]["l2u"]))

\* An echoing upstream closes once it has read the relay's end-of-stream
\* (the write side of tcp was closed) and has echoed everything it received.
EchoFin(s) ==
    /\ up[s] = "wclosed"
    /\ Len(sent[s]["u2l"]) = Len(rcvd[s]["l2u"])
    /\ PeerFin(s, "u2l")

\* ------------------------------------------------------- specifications

\* The steps of the program within session s.
SessionStep(s) ==
    \/ Dial(s)
    \/ ConnectExchange(s)
    \/ Handshake(s)
    \/ Recv(s)
    \/ \E d \in Dirs : PumpRead(s, d)
    \/ \E d \in Dirs : PumpWrite(s, d)
    \/ \E d \in Dirs : PumpSend(s, d)

\* Number of bytes the peers of all sessions have sent so far.
RECURSIVE SentUpTo(_)
SentUpTo(n) ==
    IF n = 0 THEN 0
    ELSE SentUpTo(n - 1) + Len(sent[n]["l2u"]) + Len(sent[n]["u2l"])

TotalSent == SentUpTo(MaxSessions)

\* The whole program with a listener that stays usable: the accept loop and
\* up to MaxSessions concurrent sessions, whose peers send up to MaxBytes
\* bytes in total.
Next ==
    \/ MainConfig
    \/ MainListen
    \/ AcceptOk(MaxSessions)
    \/ AcceptFail
    \/ \E s \in Sessions : SessionStep(s)
    \/ \E s \in Sessions, d \in Dirs, b \in Bytes :
          TotalSent < MaxBytes /\ PeerSend(s, d, b, MaxBytes)
    \/ \E s \in Sessions, d \in Dirs : PeerFin(s, d)

Spec == InitHttpProxy /\ [][Next]_vars

\* One accepted connection, relayed with up to MaxRelayBytes each way.
NextRelay ==
    \/ MainConfig
    \/ MainListen
    \/ AcceptOk(1)
    \/ SessionStep(1)
    \/ \E d \in Dirs, b \in Bytes : PeerSend(1, d, b, MaxRelayBytes)
    \/ \E d \in Dirs : PeerFin(1, d)

SpecRelay == Init /\ [][NextRelay]_vars

\* One accepted connection whose upstream echoes what it receives; the local
\* peer streams up to MaxEchoBytes bytes.
NextEcho ==
    \/ MainConfig
    \/ MainListen
    \/ AcceptOk(1)
    \/ SessionStep(1)
    \/ \E b \in Bytes : PeerSend(1, "l2u", b, MaxEchoBytes)
    \/ PeerFin(1, "l2u")
    \/ EchoSend(1)
    \/ EchoFin(1)

SpecEcho == Init /\ [][NextEcho]_vars

\* The start of main for every setting of the flags: the configuration is
\* built and the listening socket is opened, or main panics.
NextConfig ==
    \/ MainConfig
    \/ MainListen

SpecConfig == InitConfig /\ [][NextConfig]_vars

\* The accept loop with a listening socket that may stop working, and one
\* accepted connection.
NextListener ==
    \/ MainConfig
    \/ MainListen
    \/ AcceptOk(1)
    \/ AcceptFail
    \/ ListenerBreaks
    \/ SessionStep(1)
    \/ \E d \in Dirs, b \in Bytes : PeerSend(1, d, b, MaxBytes)
    \/ \E d \in Dirs : PeerFin(1, d)

SpecListener == InitHttpProxy /\ [][NextListener]_vars

\* ------------------------------------------------------------ properties

started(s) == pumpPc[s]["l2u"] # "idle"
closing(s) == local[s] = "closed" \/ up[s] = "closed"
noFault(s) == ~fault[s]["l2u"] /\ ~fault[s]["u2l"]

IsPrefix(a, b) == Len(a) <= Len(b) /\ a = SubSeq(b, 1, Len(a))

\* C1: in a session that reached the relay, the local connection and the
\* upstream stream are closed only after the handler has received the
\* completions of both pump goroutines, whether or not one carries an error.
C1_CloseOnlyAfterBothCompletions ==
    \A s \in Sessions : (started(s) /\ closing(s)) => Len(recvd[s]) = 2

\* C2: when one pump ended with an error, everything the opposite direction's
\* source has sent is written to that direction's destination before either
\* connection is closed (the opposite direction itself being free of network
\* failures).
C2_NoAmputation ==
    \A s \in Sessions : \A d \in Dirs :
        (pumpRes[s][d] = "err" /\ ~fault[s][Other(d)] /\ closing(s))
            => rcvd[s][Other(d)] = sent[s][Other(d)]

\* C3: when the local peer closes its write half first (the first completion
\* is local->upstream with no error), the upstream connection gets a
\* write-close if its type supports it, and once the session has ended the
\* local peer has been given everything the upstream sent up to its FIN.
C3_HalfClosePropagation ==
    \A s \in Sessions :
        (Len(recvd[s]) >= 1 /\ recvd[s][1] = [who |-> "l2u", err |-> FALSE]) =>
            /\ upCW[s] => up[s] \in {"wclosed", "closed"}
            /\ (pc[s] = "done" /\ noFault(s) /\ tx[s]["u2l"] = "fin")
                  => rcvd[s]["u2l"] = sent[s]["u2l"]

\* C4: with an echoing upstream, the bytes delivered back to the local peer
\* are at every moment a prefix of the bytes it sent, and once the session has
\* completed (the local peer has streamed its bytes and closed its write half,
\* no network failure) they are exactly the bytes it sent.
C4_EchoIntegrity ==
    \A s \in Sessions :
        /\ IsPrefix(rcvd[s]["u2l"], sent[s]["l2u"])
        /\ (pc[s] = "done" /\ started(s) /\ noFault(s) /\ tx[s]["l2u"] = "fin")
              => rcvd[s]["u2l"] = sent[s]["l2u"]

\* C5: a session that ended before the relay started (a dial, CONNECT or
\* WebSocket handshake failure) holds no open connection: the local connection
\* is closed and the upstream socket is closed or was never opened.
C5_SetupFailureClosesAll ==
    \A s \in Sessions :
        (pc[s] = "done" /\ ~started(s)) =>
            (local[s] = "closed" /\ up[s] \in {"none", "closed"})

\* C6: a session that started relaying and has ended holds no open
\* connection: the local connection and the upstream stream are both closed.
C6_RelayCleanup ==
    \A s \in Sessions :
        (pc[s] = "done" /\ started(s)) => (local[s] = "closed" /\ up[s] = "closed")

\* C6 witness: a session that left the relay at its first completion, an error.
C6_Witness ==
    \E s \in Sessions :
        /\ pc[s] = "done"
        /\ started(s)
        /\ Len(recvd[s]) = 1
        /\ recvd[s][1].err
        /\ up[s] = "closed"

\* Everything session s owns.
sessState(s) ==
    <<pc[s], local[s], up[s], route[s], wrapped[s], upCW[s], herr[s],
      connectRes[s], ops[s], recvd[s],
      pumpPc[s], pumpRes[s], held[s], chan[s],
      tx[s], q[s], sent[s], rcvd[s], fault[s]>>

\* A step in which session s fails: the handler returns on a dial, handshake
\* or relay error, or an io.Copy of the session ends with an error.
FailureStep(s) ==
    \/ /\ pc[s] # "done"
       /\ pc'[s] = "done"
       /\ \/ pumpPc'[s]["l2u"] = "idle"
          \/ recvd'[s][Len(recvd'[s])].err
    \/ \E d \in Dirs : pumpRes[s][d] # "err" /\ pumpRes'[s][d] = "err"

\* C7: a failure in one session leaves main in its accept loop with the
\* listener as it was, and leaves every other session's connections and relay
\* state unchanged.
C7_SessionIsolation ==
    [][\A s \in Sessions :
          FailureStep(s) =>
              /\ mainPc' = "accept"
              /\ lnState' = "listening"
              /\ nextId' = nextId
              /\ \A t \in Sessions \ {s} : sessState(t)' = sessState(t)]_vars

\* C7 witness: the second session has failed before its relay while the
\* first, accepted earlier, is relaying with both connections open.
C7_Witness ==
    /\ pc[2] = "done"
    /\ pumpPc[2]["l2u"] = "idle"
    /\ pc[1] = "relay"
    /\ local[1] = "open"
    /\ up[1] = "open"

\* C8: a failed Accept leaves main in the accept loop and spawns no session,
\* and an Accept that succeeds, also after failures, starts a session of its
\* own on the accepted connection.
C8_ListenerResilience ==
    [][/\ acceptErrs' # acceptErrs =>
            (mainPc' = "accept" /\ nextId' = nextId /\ pc' = pc /\ local' = local)
       /\ nextId' # nextId =>
            /\ nextId' = nextId + 1
            /\ pc[nextId'] = "none"
            /\ pc'[nextId'] = "dial"
            /\ local'[nextId'] = "open"
            /\ mainPc' = "accept"]_vars

\* C8 witness: Accept has failed, and the latest Accept, after the failure,
\* returned a connection whose session is running.
C8_Witness ==
    /\ acceptErrs >= 1
    /\ acceptErr = "nil"
    /\ nextId = 1
    /\ pc[1] = "dial"

\* C9 as stated: once Accept has failed on a listening socket that stopped
\* working, main is no longer in the accept loop.
C9_UnusableEndsLoop ==
    acceptErr = "closed" => mainPc # "accept"

\* C9 amended: a failed Accept on a listening socket that stopped working is
\* handled like any other: main stays in the accept loop, no session is
\* spawned, and the process does not terminate.
C9_UnusableKeepsLooping ==
    /\ acceptErr = "closed" => (mainPc = "accept" /\ lnState = "unusable")
    /\ lnState = "unusable" => mainPc = "accept"

\* C9 witness: Accept has failed on the unusable listening socket.
C9_Witness ==
    /\ lnState = "unusable"
    /\ acceptErr = "closed"
    /\ mainPc = "accept"

\* C10: the route of every dial is the SOCKS5 proxy when one is found, else
\* the HTTP CONNECT tunnel when an HTTP(S) proxy is found, else the direct
\* dial; the CONNECT exchange happens on the HTTP route only.
C10_ProxyPrecedence ==
    \A s \in Sessions :
        /\ route[s] # "none" =>
              /\ route[s] \in {"socks5", "connect", "direct"}
              /\ allProxy => route[s] = "socks5"
              /\ (~allProxy /\ httpProxy) => route[s] = "connect"
              /\ (~allProxy /\ ~httpProxy) => route[s] = "direct"
        /\ pc[s] = "connect" => (~allProxy /\ httpProxy)

\* C10 witness: both proxies are set and the dial went through SOCKS5.
C10_Witness ==
    \E s \in Sessions :
        /\ allProxy
        /\ httpProxy
        /\ route[s] = "socks5"
        /\ up[s] = "open"

\* Number of operations of kind o that session s has made.
OpCount(s, o) == Cardinality({i \in 1..Len(ops[s]) : ops[s][i].op = o})

C12_BadCaNeverListens ==
    (certsDir /\ caFile \in {"unreadable", "malformed"}) =>
        /\ mainPc \in {"config", "panic"}
        /\ lnState = "none"
        /\ nextId = 0

\* C13: once the configuration is built, its scheme is wss and its TLS
\* configuration present exactly when -certs_dir is set; a session wraps tcp
\* only with a TLS configuration present, and its WebSocket handshake runs
\* over a wrapped connection, wrapped just before, exactly when the scheme is wss.
C13_SchemeAndTlsAgree ==
    /\ mainPc \in {"listen", "accept"} =>
          /\ wsConfig.scheme = (IF certsDir THEN "wss" ELSE "ws")
          /\ (wsConfig.tls = "nil") <=> ~certsDir
    /\ \A s \in Sessions :
          /\ wrapped[s] => wsConfig.tls # "nil"
          /\ \A i \in 1..Len(ops[s]) :
                ops[s][i].op = "ws" =>
                    /\ wrapped[s] <=> (wsConfig.scheme = "wss")
                    /\ wsConfig.scheme = "wss" => (i > 1 /\ ops[s][i - 1].op = "tls")
                    /\ wsConfig.scheme = "ws" => OpCount(s, "tls") = 0

\* C13 witness: with -certs_dir set a session relays over a wrapped connection.
C13_Witness ==
    \E s \in Sessions :
        /\ certsDir
        /\ wrapped[s]
        /\ pc[s] = "relay"

\* The position of the first ":" of host, or one past its end.
FirstColon(host) ==
    CHOOSE i \in 1..(Len(host) + 1) :
        /\ i = Len(host) + 1 \/ host[i] = ":"
        /\ \A j \in 1..(i - 1) : host[j] # ":"

\* C14: with -certs_dir set, the ServerName of the TLS configuration is the
\* -server_name flag when it is non-empty, else the part of -target_host
\* before its first ":" (all of it when it has none).
C14_ServerName ==
    (certsDir /\ mainPc \in {"listen", "accept"}) =>
        wsConfig.sni =
            (IF serverName # <<>> THEN serverName
             ELSE SubSeq(targetHost, 1, FirstColon(targetHost) - 1))

\* C14 witness: no override, a target host with a port: the name is the host.
C14_Witness ==
    /\ certsDir
    /\ mainPc = "listen"
    /\ serverName = <<>>
    /\ targetHost = <<"h", ":", "p">>
    /\ wsConfig.sni = <<"h">>

\* C15: between the first completion and the second, the write side of the
\* local connection is closed with its read side open, and the upstream
\* connection is half-closed in the same way if its type has CloseWrite and
\* fully open if not.
C15_HalfCloseAfterFirst ==
    \A s \in Sessions :
        Len(recvd[s]) = 1 =>
            /\ local[s] = "wclosed"
            /\ up[s] = (IF upCW[s] THEN "wclosed" ELSE "open")

\* Number of completions of pump d that are in the channel or were received.
Completions(s, d) ==
    Cardinality({i \in 1..Len(chan[s] \o recvd[s]) : (chan[s] \o recvd[s])[i].who = d})

\* C16: the two pumps of a session start together; a pump has delivered
\* exactly one completion, carrying io.Copy's result, once it is done and none
\* before; the channel never holds more than two; a pump at its send can
\* always send.
C16_ChannelDiscipline ==
    \A s \in Sessions :
        /\ (pumpPc[s]["l2u"] = "idle") <=> (pumpPc[s]["u2l"] = "idle")
        /\ Len(chan[s]) <= 2
        /\ \A d \in Dirs :
              /\ Completions(s, d) = (IF pumpPc[s][d] = "done" THEN 1 ELSE 0)
              /\ pumpPc[s][d] = "send" => ENABLED PumpSend(s, d)
              /\ \A i \in 1..Len(chan[s]) :
                    chan[s][i].who = d => (chan[s][i].err <=> pumpRes[s][d] = "err")

\* C16 witness: the handler has returned after one completion and the other
\* pump is at its send.
C16_Witness ==
    \E s \in Sessions : \E d \in Dirs :
        /\ pc[s] = "done"
        /\ Len(recvd[s]) = 1
        /\ pumpPc[s][d] = "send"

\* C17: every dial and every CONNECT names the configured target host, except
\* the dial to the HTTP proxy; the proxy lookup alone sees the rewritten
\* scheme; the configuration keeps its scheme and host through all dials.
C17_RewriteForLookupOnly ==
    /\ mainPc \in {"listen", "accept"} =>
          /\ wsConfig.scheme = (IF certsDir THEN "wss" ELSE "ws")
          /\ wsConfig.host = targetHost
    /\ \A s \in Sessions : \A i \in 1..Len(ops[s]) :
          /\ ops[s][i].op = "lookup" =>
                ops[s][i].scheme = (IF certsDir THEN "https" ELSE "http")
          /\ ops[s][i].op = "connect" => ops[s][i].addr = targetHost
          /\ ops[s][i].op = "dial" =>
                ops[s][i].addr = (IF route[s] = "connect" THEN ProxyHost ELSE targetHost)
          /\ ops[s][i].op = "ws" =>
                ops[s][i].scheme = (IF certsDir THEN "wss" ELSE "ws")

\* C17 witness: behind an HTTP proxy a CONNECT was sent after the lookup.
C17_Witness ==
    \E s \in Sessions :
        /\ route[s] = "connect"
        /\ OpCount(s, "lookup") = 1
        /\ OpCount(s, "connect") = 1
        /\ pc[s] = "handshake"

\* C18: a CONNECT exchange that ends with ErrPersistEOF hands the open
\* connection to the handler with no error; one that ends with another
\* error makes getProxiedConn return an error, and the session ends without
\* a handshake.
C18_PersistEofIsSuccess ==
    \A s \in Sessions :
        /\ connectRes[s] = "persistEOF" =>
              (herr[s] = "nil" /\ pc[s] = "handshake" /\ up[s] = "open")
        /\ connectRes[s] = "error" =>
              (herr[s] = "dial" /\ pc[s] = "done" /\ OpCount(s, "ws") = 0)

\* C18 witness: the exchange has ended with ErrPersistEOF.
C18_Witness ==
    \E s \in Sessions : connectRes[s] = "persistEOF" /\ pc[s] = "handshake"

\* C19: when the proxy has answered CONNECT with a non-success status, the
\* dialer has returned an error and the session has ended.
C19_RefusedTunnelFails ==
    \A s \in Sessions :
        connectRes[s] = "refused" => (herr[s] = "dial" /\ pc[s] = "done")

\* One accepted connection under fair scheduling: the handler and the pumps
\* take the steps they can take without a network failure, and each peer
\* eventually closes its sending half.
FairRelay ==
    /\ WF_vars(Recv(1))
    /\ \A d \in Dirs :
          /\ WF_vars(PumpRead(1, d) /\ UNCHANGED fault)
          /\ WF_vars(PumpWrite(1, d) /\ UNCHANGED fault)
          /\ WF_vars(PumpSend(1, d))
          /\ WF_vars(PeerFin(1, d))

SpecRelayFair == Init /\ [][NextRelay]_vars /\ FairRelay

\* C20: a session that started relaying eventually ends, and both of its
\* pumps eventually deliver their completion and terminate.
C20_NoTaskOutlives ==
    \A s \in Sessions :
        started(s) ~> (pc[s] = "done" /\ \A d \in Dirs : pumpPc[s][d] = "done")

\* C20 witness: the handler returned on the first completion, an error; the
\* other pump then failed on the closed connection, delivered its completion
\* and terminated.
C20_Witness ==
    \E s \in Sessions : \E d \in Dirs :
        /\ pc[s] = "done"
        /\ Len(recvd[s]) = 1
        /\ recvd[s][1].who = Other(d)
        /\ recvd[s][1].err
        /\ pumpPc[s][d] = "done"
        /\ pumpRes[s][d] = "err"
        /\ ~fault[s][d]
        /\ Len(chan[s]) = 1

====
